---------------------------- MODULE Spec2Model ----------------------------
(***************************************************************************)
(* A model of finder (src/finder.ts): the search for a unique CSS selector *)
(* of one or several elements of a document.  Names (ids, classes,         *)
(* attribute names and values, tag names) are sequences of one-character   *)
(* strings, so that the word-like test, the escaping and the lower-casing  *)
(* are computed and not assumed.  A selector is the sequence of its        *)
(* compound selectors and combinators, leftmost first, as selector()       *)
(* builds the string.                                                      *)
(***************************************************************************)
EXTENDS Integers, Sequences, FiniteSets, TLC

(***************************************************************************)
(* Characters and strings                                                  *)
(***************************************************************************)
LowerSeq == << "a","b","c","d","e","f","g","h","i","j","k","l","m",
               "n","o","p","q","r","s","t","u","v","w","x","y","z" >>

UpperSeq == << "A","B","C","D","E","F","G","H","I","J","K","L","M",
               "N","O","P","Q","R","S","T","U","V","W","X","Y","Z" >>

Range(s) == { s[k] : k \in DOMAIN s }

LowerChars == Range(LowerSeq)
UpperChars == Range(UpperSeq)
DigitChars == { "0","1","2","3","4","5","6","7","8","9" }
VowelChars == { "a","e","i","o","u","A","E","I","O","U" }

\* String.prototype.toLowerCase, character by character.
ToLowerChar(c) ==
    IF c \in UpperChars
      THEN LowerSeq[CHOOSE k \in DOMAIN UpperSeq : UpperSeq[k] = c]
      ELSE c

ToLowerCase(s) == [ k \in DOMAIN s |-> ToLowerChar(s[k]) ]

\* s.startsWith(p)
StartsWith(s, p) == Len(s) >= Len(p) /\ SubSeq(s, 1, Len(p)) = p

\* s.slice(1)
Slice1(s) == SubSeq(s, 2, Len(s))

RECURSIVE Concat(_)
Concat(ss) == IF ss = << >> THEN << >> ELSE Head(ss) \o Concat(Tail(ss))

\* name.split(/-|[A-Z]/): the pieces between separators, empty pieces kept.
IsSeparator(c) == c = "-" \/ c \in UpperChars

RECURSIVE SplitFrom(_, _, _)
SplitFrom(s, k, cur) ==
    IF k > Len(s) THEN << cur >>
    ELSE IF IsSeparator(s[k]) THEN << cur >> \o SplitFrom(s, k + 1, << >>)
    ELSE SplitFrom(s, k + 1, Append(cur, s[k]))

SplitWords(s) == SplitFrom(s, 1, << >>)

\* /[^aeiou]{4,}/i.test(word)
HasConsonantRun(word) ==
    \E k \in 1..(Len(word) - 3) :
        \A j \in k..(k + 3) : word[j] \notin VowelChars

\* /^[a-z\-]{3,}$/i.test(name)
MatchesWordPattern(name) ==
    /\ Len(name) >= 3
    /\ \A k \in DOMAIN name : name[k] \in LowerChars \cup UpperChars \cup {"-"}

wordLike(name) ==
    /\ MatchesWordPattern(name)
    /\ \A k \in DOMAIN SplitWords(name) :
          LET word == SplitWords(name)[k]
          IN  ~(Len(word) <= 2) /\ ~HasConsonantRun(word)

(***************************************************************************)
(* CSS.escape and the reading back of an escaped identifier                *)
(***************************************************************************)
IdentChars == LowerChars \cup UpperChars \cup DigitChars \cup {"-", "_"}

\* CSS.escape: a leading digit (or a digit after a leading "-") becomes a
\* code-point escape "\3d ", any other character outside [a-zA-Z0-9_-] is
\* back-slashed, a lone "-" is back-slashed.
EscapeChar(s, k) ==
    LET c == s[k]
    IN  IF c \in DigitChars /\ (k = 1 \/ (k = 2 /\ s[1] = "-"))
          THEN << "\\3", c, " " >>
        ELSE IF c = "-" /\ k = 1 /\ Len(s) = 1 THEN << "\\", c >>
        ELSE IF c \in IdentChars THEN << c >>
        ELSE << "\\", c >>

CSSEscape(s) == Concat([ k \in DOMAIN s |-> EscapeChar(s, k) ])

\* What the selector engine reads in an escaped identifier or string.
RECURSIVE Unescape(_)
Unescape(t) ==
    IF t = << >> THEN << >>
    ELSE IF Head(t) = "\\3" /\ Len(t) >= 3
      THEN << t[2] >> \o Unescape(SubSeq(t, 4, Len(t)))
    ELSE IF Head(t) = "\\" /\ Len(t) >= 2
      THEN << t[2] >> \o Unescape(SubSeq(t, 3, Len(t)))
    ELSE << Head(t) >> \o Unescape(Tail(t))

(***************************************************************************)
(* The documents: the DOM that finder reads through the host's accessors   *)
(***************************************************************************)
Null == 0 - 1           \* null / undefined
DocumentNode == 0       \* the Document node, parentNode of <html>
NoName == << >>         \* an absent attribute, an undefined tagName argument

tHTML == << "H","T","M","L" >>
tHEAD == << "H","E","A","D" >>
tBODY == << "B","O","D","Y" >>
tDIV == << "D","I","V" >>
tSPAN == << "S","P","A","N" >>
tSECTION == << "S","E","C","T","I","O","N" >>
tARTICLE == << "A","R","T","I","C","L","E" >>
tNAV == << "N","A","V" >>
tA == << "A" >>
tP == << "P" >>

sHtml == << "h","t","m","l" >>
sId == << "i","d" >>
sClass == << "c","l","a","s","s" >>
sDataDash == << "d","a","t","a","-" >>
sHash == << "#" >>
sRole == << "r","o","l","e" >>
sName == << "n","a","m","e" >>
sAriaLabel == << "a","r","i","a","-","l","a","b","e","l" >>
sRel == << "r","e","l" >>
sHref == << "h","r","e","f" >>

sDup == << "d","u","p" >>
sMain == << "m","a","i","n" >>
sTop == << "t","o","p" >>
sItem == << "i","t","e","m" >>
sOneA == << "1","a" >>
sCssA == << "c","s","s","-","1","7","5","o","i","2","r" >>
sCssB == << "c","s","s","-","y","6","a","5","a","9","i" >>

\* An element: tagName as the DOM reports it for an HTML element (upper
\* case), its parent (DocumentNode for the root element), its id attribute
\* (NoName when absent), its class list and its other attributes.
El(tag, parent, id, classes, others) ==
    [ tagName |-> tag, parent |-> parent, id |-> id,
      classList |-> classes, others |-> others ]

At(name, value) == [ name |-> name, value |-> value ]

\* <section><div id=dup><span/></div></section>
\* <article><div id=dup><span/></div><span/></article>   (a duplicated id)
DocDup ==
    << El(tHTML, DocumentNode, NoName, << >>, << >>),
       El(tBODY, 1, NoName, << >>, << >>),
       El(tSECTION, 2, NoName, << >>, << >>),
       El(tDIV, 3, sDup, << >>, << >>),
       El(tSPAN, 4, NoName, << >>, << >>),
       El(tARTICLE, 2, NoName, << >>, << >>),
       El(tDIV, 6, sDup, << >>, << >>),
       El(tSPAN, 7, NoName, << >>, << >>),
       El(tSPAN, 6, NoName, << >>, << >>) >>

\* <div class="css-175oi2r"/><div class="css-y6a5a9i item" id="1a" role=main/>
DocBad ==
    << El(tHTML, DocumentNode, NoName, << >>, << >>),
       El(tHEAD, 1, NoName, << >>, << >>),
       El(tBODY, 1, NoName, << >>, << >>),
       El(tDIV, 3, NoName, << sCssA >>, << >>),
       El(tDIV, 3, sOneA, << sCssB, sItem >>, << At(sRole, sMain) >>) >>

\* <div><nav id=top><section id=main><p><a class=item/><a class=item/></p>
\*      </section></nav><p><a class=item/></p></div>
DocList ==
    << El(tHTML, DocumentNode, NoName, << >>, << >>),
       El(tBODY, 1, NoName, << >>, << >>),
       El(tDIV, 2, NoName, << >>, << >>),
       El(tNAV, 3, sTop, << >>, << >>),
       El(tSECTION, 4, sMain, << >>, << >>),
       El(tP, 5, NoName, << >>, << >>),
       El(tA, 6, NoName, << sItem >>, << >>),
       El(tA, 6, NoName, << sItem >>, << >>),
       El(tP, 3, NoName, << >>, << >>),
       El(tA, 9, NoName, << sItem >>, << >>) >>

\* <nav id=top><section><p><a/></p></section></nav><section><p><a/></p>
\* </section>: the two links differ only by what is above their sections
DocDeep ==
    << El(tHTML, DocumentNode, NoName, << >>, << >>),
       El(tBODY, 1, NoName, << >>, << >>),
       El(tNAV, 2, sTop, << >>, << >>),
       El(tSECTION, 3, NoName, << >>, << >>),
       El(tP, 4, NoName, << >>, << >>),
       El(tA, 5, NoName, << >>, << >>),
       El(tSECTION, 2, NoName, << >>, << >>),
       El(tP, 7, NoName, << >>, << >>),
       El(tA, 8, NoName, << >>, << >>) >>

Documents == << DocDup, DocBad, DocList, DocDeep >>

Elements(d) == DOMAIN Documents[d]

\* Node.parentNode and Node.parentElement
parentNode(d, e) == Documents[d][e].parent

parentElement(d, e) ==
    IF Documents[d][e].parent = DocumentNode THEN Null
    ELSE Documents[d][e].parent

\* the element children of a node, in document order
ChildNodes(d, n) ==
    SelectSeq([ k \in 1..Len(Documents[d]) |-> k ],
              LAMBDA k : Documents[d][k].parent = n)

\* Element.attributes: id and class are attributes too
Attributes(d, e) ==
    LET el == Documents[d][e]
    IN  (IF el.id = NoName THEN << >> ELSE << At(sId, el.id) >>)
        \o (IF el.classList = << >> THEN << >>
            ELSE << At(sClass, el.classList[1]) >>)
        \o el.others

\* Element.getAttribute('id')
GetId(d, e) == Documents[d][e].id

\* element.tagName.toLowerCase()
LowerTag(d, e) == ToLowerCase(Documents[d][e].tagName)

RECURSIVE Ancestors(_, _)
Ancestors(d, e) ==
    IF parentElement(d, e) = Null THEN {}
    ELSE {parentElement(d, e)} \cup Ancestors(d, parentElement(d, e))

\* the elements a querySelectorAll on the scope can return
InScope(d, scope, e) == scope = DocumentNode \/ scope \in Ancestors(d, e)

(***************************************************************************)
(* The predicates (finder.ts 11-37) and their configured overrides         *)
(***************************************************************************)
acceptedAttrNames == { sRole, sName, sAriaLabel, sRel, sHref }

attr(name, value) ==
    LET nameIsOk == \/ name \in acceptedAttrNames
                    \/ (StartsWith(name, sDataDash) /\ wordLike(name))
        valueIsOk == \/ (wordLike(value) /\ Len(value) < 100)
                     \/ (StartsWith(value, sHash) /\ wordLike(Slice1(value)))
    IN  nameIsOk /\ valueIsOk

idName(name) == wordLike(name)

className(name) == wordLike(name)

tagName(name) == TRUE

\* A configured predicate is the default one, or an override that accepts
\* every name, or an override that accepts none.
Overrides == { "default", "all", "none" }

ConfigIdName(config, name) ==
    CASE config.idName = "default" -> idName(name)
      [] config.idName = "all" -> TRUE
      [] OTHER -> FALSE

\* the class predicate left out of tie: every class name passes
AnyClassName(config, name) == TRUE

ConfigClassName(config, name) ==
    CASE config.className = "default" -> className(name)
      [] config.className = "all" -> TRUE
      [] OTHER -> FALSE

ConfigTagName(config, name) ==
    CASE config.tagName = "default" -> tagName(name)
      [] config.tagName = "all" -> TRUE
      [] OTHER -> FALSE

ConfigAttr(config, name, value) ==
    CASE config.attr = "default" -> attr(name, value)
      [] config.attr = "all" -> TRUE
      [] OTHER -> FALSE

(***************************************************************************)
(* Knots and their names                                                   *)
(***************************************************************************)
\* The name of a knot: one compound selector.  kind says how text (and
\* value, n) are written: "#text", ".text", [text="value"], text,
\* text:nth-of-type(n), text:nth-child(n).
Compound(kind, text, value, n) ==
    [ kind |-> kind, text |-> text, value |-> value, n |-> n ]

NaN == 0 - 2

Knot(name, penalty) == [ name |-> name, penalty |-> penalty, level |-> Null ]

nthChild(tag, index) ==
    IF tag = sHtml THEN Compound("tag", sHtml, << >>, 0)
    ELSE Compound("nthChild", tag, << >>, index)

nthOfType(tag, index) ==
    IF tag = sHtml THEN Compound("tag", sHtml, << >>, 0)
    ELSE Compound("nthOfType", tag, << >>, index)

\* the loop of indexOf with the test of line 319 made before the count of
\* lines 312-318: the input itself is not counted
RECURSIVE IndexBeforeCount(_, _, _, _, _, _)
IndexBeforeCount(d, children, k, i, input, tag) ==
    IF k > Len(children) THEN i
    ELSE LET child == children[k]
             j == IF tag = NoName \/ LowerTag(d, child) = tag
                    THEN i + 1 ELSE i
         IN  IF child = input THEN i
             ELSE IndexBeforeCount(d, children, k + 1, j, input, tag)

\* indexOf: the loop over the parent's children up to the input
RECURSIVE IndexOfLoop(_, _, _, _, _, _)
IndexOfLoop(d, children, k, i, input, tag) ==
    IF k > Len(children) THEN i
    ELSE LET child == children[k]
             j == IF tag = NoName \/ LowerTag(d, child) = tag
                    THEN i + 1 ELSE i
         IN  IF child = input THEN j
             ELSE IndexOfLoop(d, children, k + 1, j, input, tag)

indexOf(d, input, tag) ==
    LET parent == parentNode(d, input)
    IN  IF parent = Null THEN Null
        ELSE IF ChildNodes(d, parent) = << >> THEN Null
        ELSE IndexOfLoop(d, ChildNodes(d, parent), 1, 0, input, tag)

tie(d, element, config) ==
    LET elementId == GetId(d, element)
        classList == Documents[d][element].classList
        attributes == Attributes(d, element)
        tag == LowerTag(d, element)
        index == indexOf(d, element, tag)
        nth == indexOf(d, element, NoName)
    IN  (IF elementId # NoName /\ ConfigIdName(config, elementId)
           THEN << Knot(Compound("id", CSSEscape(elementId), << >>, 0), 0) >>
           ELSE << >>)
        \o Concat([ k \in DOMAIN classList |->
              IF ConfigClassName(config, classList[k])
                THEN << Knot(Compound("class", CSSEscape(classList[k]),
                                      << >>, 0), 1) >>
                ELSE << >> ])
        \o Concat([ k \in DOMAIN attributes |->
              IF attributes[k].name = sClass THEN << >>
              ELSE IF ConfigAttr(config, attributes[k].name,
                                 attributes[k].value)
                THEN << Knot(Compound("attr", CSSEscape(attributes[k].name),
                                      CSSEscape(attributes[k].value), 0),
                             2) >>
                ELSE << >> ])
        \o (IF ConfigTagName(config, tag)
              THEN << Knot(Compound("tag", tag, << >>, 0), 5) >>
                   \o (IF index # Null
                         THEN << Knot(nthOfType(tag, index), 10) >>
                         ELSE << >>)
              ELSE << >>)
        \o (IF nth # Null THEN << Knot(nthChild(tag, nth), 50) >>
            ELSE << >>)

(***************************************************************************)
(* selector, penalty, the sort by penalty                                  *)
(***************************************************************************)
Child == " > "
Descendant == " "

\* selector without the test of the levels: always the child combinator
RECURSIVE selectorOfChildren(_, _, _, _)
selectorOfChildren(path, i, node, query) ==
    IF i > Len(path) THEN query
    ELSE selectorOfChildren(path, i + 1, path[i],
                            << path[i].name, Child >> \o query)

\* selector: the compounds and combinators, leftmost (outermost) first
RECURSIVE selectorFrom(_, _, _, _)
selectorFrom(path, i, node, query) ==
    IF i > Len(path) THEN query
    ELSE LET level == IF path[i].level = Null THEN 0 ELSE path[i].level
         IN  selectorFrom(path, i + 1, path[i],
                 IF node.level # Null /\ node.level = level - 1
                   THEN << path[i].name, Child >> \o query
                   ELSE << path[i].name, Descendant >> \o query)

selector(path) == selectorFrom(path, 2, path[1], << path[1].name >>)

RECURSIVE penalty(_)
penalty(path) ==
    IF path = << >> THEN 0 ELSE Head(path).penalty + penalty(Tail(path))

byPenalty(a, b) == penalty(a) - penalty(b)

\* Array.prototype.sort(byPenalty): a stable sort.  byPenalty orders the
\* paths by their penalty alone, so the result is, penalty after penalty in
\* increasing order, the paths of that penalty in the order they had.
RECURSIVE sortScores(_, _)
sortScores(paths, scores) ==
    IF scores = {} THEN << >>
    ELSE LET least == CHOOSE x \in scores : \A y \in scores : x <= y
         IN  SelectSeq(paths, LAMBDA q : penalty(q) = least)
             \o sortScores(paths, scores \ {least})

\* a sort that, among the paths of the least penalty, puts the shortest first
sortShortestFirst(paths) ==
    IF paths = << >> THEN << >>
    ELSE LET sorted == sortScores(paths, { penalty(paths[k]) : k \in DOMAIN paths })
             ties == { k \in DOMAIN sorted : penalty(sorted[k]) = penalty(sorted[1]) }
             first == CHOOSE k \in ties : \A j \in ties :
                         \/ Len(sorted[k]) < Len(sorted[j])
                         \/ Len(sorted[k]) = Len(sorted[j]) /\ k <= j
         IN  << sorted[first] >> \o SubSeq(sorted, 1, first - 1)
             \o SubSeq(sorted, first + 1, Len(sorted))

sortByPenalty(paths) ==
    sortScores(paths, { penalty(paths[k]) : k \in DOMAIN paths })

(***************************************************************************)
(* The selector engine: rootDocument.querySelectorAll(css)                 *)
(***************************************************************************)
\* the position of an element among its element siblings (of its type)
SiblingIndex(d, e, sameType) ==
    Cardinality({ s \in Elements(d) :
        /\ parentNode(d, s) = parentNode(d, e)
        /\ s <= e
        /\ (sameType => LowerTag(d, s) = LowerTag(d, e)) })

MatchesCompound(d, e, c) ==
    CASE c.kind = "id" ->
           GetId(d, e) # NoName /\ GetId(d, e) = Unescape(c.text)
      [] c.kind = "class" ->
           Unescape(c.text) \in Range(Documents[d][e].classList)
      [] c.kind = "attr" ->
           \E k \in DOMAIN Attributes(d, e) :
              /\ Attributes(d, e)[k].name = Unescape(c.text)
              /\ Attributes(d, e)[k].value = Unescape(c.value)
      [] c.kind = "tag" -> LowerTag(d, e) = ToLowerCase(c.text)
      [] c.kind = "nthOfType" ->
           /\ LowerTag(d, e) = ToLowerCase(c.text)
           /\ SiblingIndex(d, e, TRUE) = c.n
      [] c.kind = "nthChild" ->
           /\ LowerTag(d, e) = ToLowerCase(c.text)
           /\ SiblingIndex(d, e, FALSE) = c.n
      [] OTHER -> FALSE

\* css[1..pos] matches e, whose own compound is css[pos]
RECURSIVE MatchesUpTo(_, _, _, _)
MatchesUpTo(d, e, css, pos) ==
    /\ MatchesCompound(d, e, css[pos])
    /\ \/ pos = 1
       \/ /\ css[pos - 1] = Child
          /\ parentElement(d, e) # Null
          /\ MatchesUpTo(d, parentElement(d, e), css, pos - 2)
       \/ /\ css[pos - 1] = Descendant
          /\ \E a \in Ancestors(d, e) : MatchesUpTo(d, a, css, pos - 2)

querySelectorAll(d, scope, css) ==
    { e \in Elements(d) : InScope(d, scope, e) /\ MatchesUpTo(d, e, css, Len(css)) }

(***************************************************************************)
(* unique, fallback, combinations, the search generator                    *)
(***************************************************************************)
InputSet(input) == Range(input)

\* unique: "NoMatch" stands for the thrown Error of line 393
unique(d, path, elementsToMatch, rootDocument) ==
    LET css == selector(path)
        foundElements == querySelectorAll(d, rootDocument, css)
    IN  IF Cardinality(foundElements) = 0 THEN "NoMatch"
        ELSE IF /\ Cardinality(foundElements) = Len(elementsToMatch)
                /\ \A k \in DOMAIN elementsToMatch :
                      elementsToMatch[k] \in foundElements
          THEN "yes"
        ELSE "no"

\* document.body, the default root (line 74)
documentBody(d) == CHOOSE e \in Elements(d) : Documents[d][e].tagName = tBODY

findRootDocument(d, rootNode) ==
    IF rootNode = DocumentNode THEN rootNode
    ELSE IF rootNode = documentBody(d) THEN DocumentNode
    ELSE rootNode

\* fallback: the walk of lines 331-344; Null when an index is undefined
RECURSIVE fallbackPath(_, _, _, _, _)
fallbackPath(d, current, rootDocument, i, path) ==
    IF current = Null \/ current = rootDocument THEN path
    ELSE LET tag == LowerTag(d, current)
             index == indexOf(d, current, tag)
         IN  IF index = Null THEN << >>
             ELSE fallbackPath(d, parentElement(d, current), rootDocument, i + 1,
                     Append(path, [ name |-> nthOfType(tag, index),
                                    penalty |-> NaN, level |-> i ]))

\* fallback without the test of line 345: the chain is returned as built
fallbackUnverified(d, input, rootDocument) ==
    LET path == fallbackPath(d, input[1], rootDocument, 0, << >>)
    IN  IF path = << >> THEN [ kind |-> "none", path |-> << >> ]
        ELSE [ kind |-> "path", path |-> path ]

\* fallback: [kind |-> "path", path], [kind |-> "none"] (undefined) or
\* [kind |-> "NoMatch"] (unique threw)
fallback(d, input, rootDocument) ==
    LET path == fallbackPath(d, input[1], rootDocument, 0, << >>)
    IN  IF path = << >> THEN [ kind |-> "none", path |-> << >> ]
        ELSE LET u == unique(d, path, input, rootDocument)
             IN  IF u = "NoMatch" THEN [ kind |-> "NoMatch", path |-> path ]
                 ELSE IF u = "yes" THEN [ kind |-> "path", path |-> path ]
                 ELSE [ kind |-> "none", path |-> path ]

RECURSIVE combinations(_, _)
combinations(stack, path) ==
    IF Len(stack) > 0
      THEN Concat([ k \in DOMAIN stack[1] |->
                      combinations(Tail(stack), Append(path, stack[1][k])) ])
      ELSE << path >>

\* The state of the search generator: its locals and where it is suspended
\* ("loop": in the while loop, "yieldLoop": in the for of lines 187-189,
\* "yieldFinal": in the for of lines 196-198, "done").
GenInit(input) ==
    [ stack |-> << >>, paths |-> << >>, current |-> input[1], i |-> 0,
      at |-> "loop", pos |-> 0 ]

\* lines 176-178: node.level = i for every node of the level
stamp(level, i) == [ k \in DOMAIN level |-> [ level[k] EXCEPT !.level = i ] ]

\* lines 183-191: the paths of the longer stack join the pending ones
grown(d, g, stack) ==
    [ stack |-> stack, paths |-> g.paths \o combinations(stack, << >>),
      current |-> parentElement(d, g.current), i |-> g.i + 1,
      at |-> "loop", pos |-> 0 ]

\* one pass of the while loop, lines 175-186
searchLevel(d, config, g) ==
    grown(d, g, Append(g.stack, stamp(tie(d, g.current, config), g.i)))

\* the batch yielded without the sort of line 186
seededUnsorted(config, g) ==
    IF g.i >= config.seedMinLength
      THEN [ g EXCEPT !.at = "yieldLoop", !.pos = 1 ]
      ELSE g

seeded(config, g) ==
    IF g.i >= config.seedMinLength
      THEN [ g EXCEPT !.paths = sortByPenalty(g.paths),
                      !.at = "yieldLoop", !.pos = 1 ]
      ELSE g

\* generator.next(): runs the generator to its next yield or to its end
RECURSIVE searchNext(_, _, _, _)
searchNext(d, config, rootDocument, g) ==
    CASE g.at = "yieldLoop" ->
           IF g.pos <= Len(g.paths)
             THEN [ done |-> FALSE, value |-> g.paths[g.pos],
                    g |-> [ g EXCEPT !.pos = g.pos + 1 ] ]
             ELSE searchNext(d, config, rootDocument,
                     [ g EXCEPT !.paths = << >>, !.at = "loop", !.pos = 0 ])
      [] g.at = "loop" ->
           IF g.current # Null /\ g.current # rootDocument
             THEN searchNext(d, config, rootDocument,
                             seeded(config, searchLevel(d, config, g)))
             ELSE searchNext(d, config, rootDocument,
                     [ g EXCEPT !.paths = sortByPenalty(g.paths),
                                !.at = "yieldFinal", !.pos = 1 ])
      [] g.at = "yieldFinal" ->
           IF g.pos <= Len(g.paths)
             THEN [ done |-> FALSE, value |-> g.paths[g.pos],
                    g |-> [ g EXCEPT !.pos = g.pos + 1 ] ]
             ELSE [ done |-> TRUE, value |-> << >>,
                    g |-> [ g EXCEPT !.at = "done" ] ]
      [] OTHER -> [ done |-> TRUE, value |-> << >>, g |-> g ]

(***************************************************************************)
(* optimize and permuations as stacks of suspended calls                   *)
(***************************************************************************)
\* newPath = [...path]; newPath.splice(i, 1)   (i counted from 1 here)
Splice(path, i) == SubSeq(path, 1, i - 1) \o SubSeq(path, i + 1, Len(path))

Frame(path) == [ path |-> path, i |-> 2 ]

\* a call of optimize whose loop has a next pass (lines 409-410)
optimizeHasNext(config, f) ==
    /\ Len(f.path) > 2
    /\ Len(f.path) > config.optimizedMinLength
    /\ f.i < Len(f.path)

\* the calls of optimize that are finished return to their callers
RECURSIVE optimizeUnwind(_, _)
optimizeUnwind(config, frames) ==
    IF frames = << >> THEN frames
    ELSE IF optimizeHasNext(config, frames[Len(frames)]) THEN frames
    ELSE optimizeUnwind(config, SubSeq(frames, 1, Len(frames) - 1))

\* a call of permuations whose loop has a next pass (lines 438-439)
permuationsHasNext(maximumLength, f) ==
    Len(f.path) > maximumLength /\ f.i < Len(f.path)

\* the calls of permuations run down to the next test of line 452
RECURSIVE permuationsDescend(_, _)
permuationsDescend(maximumLength, frames) ==
    IF frames = << >> THEN frames
    ELSE LET f == frames[Len(frames)]
         IN  IF permuationsHasNext(maximumLength, f)
               THEN permuationsDescend(maximumLength,
                      SubSeq(frames, 1, Len(frames) - 1)
                      \o << [ f EXCEPT !.i = f.i + 1 ],
                            Frame(Splice(f.path, f.i)) >>)
               ELSE frames

(***************************************************************************)
(* The calls of finder that are explored                                   *)
(***************************************************************************)
Infinity == 1000000

MaxElapsed == 2         \* the clock readings are 0..MaxElapsed ms

\* the document, the targets and the root option of a call
Call(d, input, root) == [ doc |-> d, input |-> input, root |-> root ]

Calls ==
    { Call(1, << 5 >>, 2), Call(1, << 4 >>, 2), Call(1, << 1 >>, 2),
      Call(1, << 8 >>, 2),
      Call(1, << 1 >>, 3), Call(1, << 5 >>, 3),
      Call(2, << 4 >>, 3), Call(2, << 5 >>, DocumentNode),
      Call(2, << 4, 5 >>, 3),
      Call(3, << 7 >>, 2), Call(3, << 7, 8 >>, 3), Call(3, << 10 >>, 3),
      Call(3, << 10 >>, 5), Call(3, << 5 >>, 5), Call(4, << 6 >>, 2) }

Predicates(o) ==
    [ idName |-> o, className |-> o, tagName |-> o, attr |-> o ]

PredicateSets ==
    { Predicates("default"), Predicates("all"), Predicates("none"),
      [ Predicates("default") EXCEPT !.tagName = "none" ] }

Configs ==
    { [ root |-> 0, idName |-> p.idName, className |-> p.className,
        tagName |-> p.tagName, attr |-> p.attr, timeoutMs |-> t,
        seedMinLength |-> s, optimizedMinLength |-> o,
        maxNumberOfPathChecks |-> m ] :
      p \in PredicateSets, t \in {0, 1, Infinity}, s \in {1, 3, 4},
      o \in {2, 3}, m \in {0, 4, Infinity} }

NoResult == [ kind |-> "none", css |-> << >>, via |-> "", err |-> "" ]
Return(css, via) == [ kind |-> "return", css |-> css, via |-> via, err |-> "" ]
Throw(err) == [ kind |-> "throw", css |-> << >>, via |-> "", err |-> err ]

HtmlSelector == << Compound("tag", sHtml, << >>, 0) >>

VARIABLES
    doc,            \* the document of the call
    input,          \* the targets
    config,         \* the options merged with the defaults
    pc,             \* where finder is
    elapsed,        \* the last reading of the clock, ms since startTime
    gen,            \* the search generator
    foundPaths,
    count,
    frames,         \* the suspended calls of optimize or of permuations
    rest,           \* the paths still to be mapped (lines 136-153)
    out,            \* what optimize(firstPath) has yielded
    otherPermutations,
    optimized,
    firstOptimizedPath,
    result,         \* what the call returned or threw
    tested,         \* the last two candidates of search given to unique
    lateCheck,      \* who called unique after the clock passed timeoutMs
    sortIn,         \* the list given to the last sort that selects a path
    picked,         \* the path that sort put first
    yielded,        \* the last path optimize yielded, and from which path
    timedOut,       \* a clock reading above timeoutMs was made
    prev            \* the outcome of the previous call of the same inputs

vars == << doc, input, config, pc, elapsed, gen, foundPaths, count, frames,
           rest, out, otherPermutations, optimized, firstOptimizedPath,
           result, tested, lateCheck, sortIn, picked, yielded, timedOut,
           prev >>

history == << tested, lateCheck, sortIn, picked, yielded, timedOut >>

rootDocument == findRootDocument(doc, config.root)

NoPrev == [ result |-> NoResult, timedOut |-> FALSE, calls |-> 0 ]

NoYield == [ seed |-> << >>, from |-> << >>, path |-> << >> ]

Fresh ==
    /\ pc = "start"
    /\ elapsed = 0
    /\ gen = GenInit(input)
    /\ foundPaths = << >>
    /\ count = 0
    /\ frames = << >>
    /\ rest = << >>
    /\ out = << >>
    /\ otherPermutations = << >>
    /\ optimized = << >>
    /\ firstOptimizedPath = << >>
    /\ result = NoResult
    /\ tested = << >>
    /\ lateCheck = "none"
    /\ sortIn = << >>
    /\ picked = << >>
    /\ yielded = NoYield
    /\ timedOut = FALSE

\* The search for several targets goes through every candidate; in the
\* deepest document it is explored with the tag predicate that keeps the
\* levels small.  The seed of four levels is explored in the document whose
\* first unique candidate has four fragments.
Explored(c, o) ==
    /\ (Len(c.input) > 1 /\ c.doc = 3) => o.tagName = "none"
    /\ o.seedMinLength = 4 <=> c.doc = 4

Init ==
    /\ \E c \in Calls, o \in Configs :
          /\ Explored(c, o)
          /\ doc = c.doc
          /\ input = c.input
          /\ config = [ o EXCEPT !.root = c.root ]
    /\ Fresh
    /\ prev = NoPrev

(***************************************************************************)
(* finder, lines 62-163                                                    *)
(***************************************************************************)
Finish(r) ==
    /\ pc' = "done"
    /\ result' = r

Late(who, t) == IF t > config.timeoutMs THEN who ELSE lateCheck

\* lines 66-89: the shortcut for <html>, then the start of the clock
Start ==
    /\ pc = "start"
    /\ IF \A k \in DOMAIN input : LowerTag(doc, input[k]) = sHtml
         THEN Finish(Return(HtmlSelector, "html"))
         ELSE pc' = "search" /\ result' = result
    /\ elapsed' = 0
    /\ UNCHANGED << doc, input, config, gen, foundPaths, count, frames, rest,
                    out, otherPermutations, optimized, firstOptimizedPath,
                    history, prev >>

\* line 91, the generator is finished: the loop ends
searchEnds(next) ==
    /\ next.done
    /\ pc' = "found"
    /\ gen' = next.g

SearchExhausted ==
    /\ pc = "search"
    /\ searchEnds(searchNext(doc, config, rootDocument, gen))
    /\ UNCHANGED << doc, input, config, elapsed, foundPaths, count, frames,
                    rest, out, otherPermutations, optimized,
                    firstOptimizedPath, result, history, prev >>

\* the budget test with >= for the time: the last millisecond is not used
overBudgetAtLimit(t, checks, cfg) ==
    t >= cfg.timeoutMs \/ checks >= cfg.maxNumberOfPathChecks

\* lines 93-96: the time or the number of checks is spent
overBudget(t, checks, cfg) ==
    t > cfg.timeoutMs \/ checks >= cfg.maxNumberOfPathChecks

\* lines 97-107: the budget is spent; fPath is what fallback answers
budgetSpent(next, fPath) ==
    /\ ~next.done
    /\ gen' = next.g
    /\ \E t \in elapsed..MaxElapsed :
          /\ overBudget(t, count, config)
          /\ elapsed' = t
          /\ timedOut' = (timedOut \/ t > config.timeoutMs)
    /\ IF Len(foundPaths) > 0
         THEN pc' = "found" /\ result' = result
         ELSE CASE fPath.kind = "NoMatch" -> Finish(Throw("NoMatch"))
                [] fPath.kind = "none" -> Finish(Throw("Timeout"))
                [] OTHER -> Finish(Return(selector(fPath.path), "fallback"))

\* lines 91-108: a candidate is yielded and the budget is spent
SearchBudget ==
    /\ pc = "search"
    /\ budgetSpent(searchNext(doc, config, rootDocument, gen),
                   fallback(doc, input, rootDocument))
    /\ UNCHANGED << doc, input, config, foundPaths, count, frames, rest, out,
                    otherPermutations, optimized, firstOptimizedPath, tested,
                    lateCheck, sortIn, picked, yielded, prev >>

\* lines 109-115: the candidate is tested; u is what unique answers
candidateTested(batch, candidate, u) ==
    /\ count' = count + 1
    /\ tested' = << [ batch |-> batch, score |-> penalty(candidate) ] >>
                 \o (IF tested = << >> THEN << >> ELSE << tested[1] >>)
    /\ CASE u = "NoMatch" ->
              Finish(Throw("NoMatch")) /\ foundPaths' = foundPaths
         [] u = "yes" ->
              /\ foundPaths' = Append(foundPaths, candidate)
              /\ pc' = IF Len(input) = 1 THEN "found" ELSE pc
              /\ result' = result
         [] OTHER ->
              UNCHANGED << pc, result, foundPaths >>

withinBudget(next) ==
    /\ ~next.done
    /\ gen' = next.g
    /\ \E t \in elapsed..MaxElapsed :
          /\ ~overBudget(t, count, config)
          /\ elapsed' = t
          /\ lateCheck' = Late("search", t)
    /\ candidateTested(next.g.i, next.value,
                       unique(doc, next.value, input, rootDocument))

\* lines 91-116: a candidate is yielded within the budget and is tested
SearchCheck ==
    /\ pc = "search"
    /\ withinBudget(searchNext(doc, config, rootDocument, gen))
    /\ UNCHANGED << doc, input, config, frames, rest, out, otherPermutations,
                    optimized, firstOptimizedPath, sortIn, picked, yielded,
                    timedOut, prev >>

\* lines 118-128: after the loop, the sort of the found paths
SortFound ==
    /\ pc = "found"
    /\ IF Len(foundPaths) = 0
         THEN /\ Finish(Throw("NotFound"))
              /\ UNCHANGED << foundPaths, frames, sortIn, picked >>
         ELSE /\ foundPaths' = sortByPenalty(foundPaths)
              /\ sortIn' = foundPaths
              /\ picked' = foundPaths'[1]
              /\ frames' = optimizeUnwind(config, << Frame(foundPaths'[1]) >>)
              /\ pc' = "optimize"
              /\ result' = result
    /\ UNCHANGED << doc, input, config, elapsed, gen, count, rest, out,
                    otherPermutations, optimized, firstOptimizedPath, tested,
                    lateCheck, yielded, timedOut, prev >>

\* a pass of optimize that yields newPath whatever unique answers
optimizeUntested(cfg, fs, t, u) ==
    LET f == fs[Len(fs)]
        callers == SubSeq(fs, 1, Len(fs) - 1)
        newPath == Splice(f.path, f.i)
    IN  IF t > cfg.timeoutMs
          THEN [ frames |-> optimizeUnwind(cfg, callers), yield |-> << >> ]
          ELSE [ frames |-> optimizeUnwind(cfg,
                     callers \o << [ f EXCEPT !.i = f.i + 1 ], Frame(newPath) >>),
                 yield |-> << newPath >> ]

\* one pass of the loop of the innermost running call of optimize, lines
\* 410-421, reading the clock as t; u is what unique answers for newPath
optimizeStep(cfg, fs, t, u) ==
    LET f == fs[Len(fs)]
        callers == SubSeq(fs, 1, Len(fs) - 1)
        newPath == Splice(f.path, f.i)
    IN  IF t > cfg.timeoutMs
          THEN [ frames |-> optimizeUnwind(cfg, callers), yield |-> << >> ]
        ELSE IF u = "yes"
          THEN [ frames |-> optimizeUnwind(cfg,
                     callers \o << [ f EXCEPT !.i = f.i + 1 ], Frame(newPath) >>),
                 yield |-> << newPath >> ]
        ELSE [ frames |-> optimizeUnwind(cfg,
                     callers \o << [ f EXCEPT !.i = f.i + 1 ] >>),
               yield |-> << >> ]

Yielded(fs, step) ==
    IF step.yield = << >> THEN yielded
    ELSE [ seed |-> fs[1].path, from |-> fs[Len(fs)].path,
           path |-> step.yield[1] ]

\* the path that the running call of optimize tests next (lines 415-416)
optimizeNewPath(fs) == Splice(fs[Len(fs)].path, fs[Len(fs)].i)

\* a pass of optimize at clock reading t, unique answering u
optimizePass(t, u) ==
    /\ elapsed' = t
    /\ timedOut' = (timedOut \/ t > config.timeoutMs)
    /\ lateCheck' = IF t <= config.timeoutMs THEN Late("optimize", t)
                    ELSE lateCheck
    /\ IF t <= config.timeoutMs /\ u = "NoMatch"
         THEN Finish(Throw("NoMatch")) /\ yielded' = yielded
         ELSE /\ yielded' = Yielded(frames, optimizeStep(config, frames, t, u))
              /\ UNCHANGED << pc, result >>

firstOptimized(t, u, step) ==
    /\ optimizePass(t, u)
    /\ IF t <= config.timeoutMs /\ u = "NoMatch"
         THEN UNCHANGED << frames, out >>
         ELSE frames' = step.frames /\ out' = out \o step.yield

\* lines 125-128: optimize(firstPath), one pass of its loop
OptimizeFirst ==
    /\ pc = "optimize"
    /\ frames # << >>
    /\ \E t \in elapsed..MaxElapsed,
          u \in { unique(doc, optimizeNewPath(frames), input, rootDocument) } :
          firstOptimized(t, u, optimizeStep(config, frames, t, u))
    /\ UNCHANGED << doc, input, config, gen, foundPaths, count, rest,
                    otherPermutations, optimized, firstOptimizedPath, tested,
                    sortIn, picked, prev >>

\* the next call of permuations to run, down to its test of line 452
permuationsLoad(maximumLength, fs, paths) ==
    IF fs # << >>
      THEN [ frames |-> permuationsDescend(maximumLength, fs), rest |-> paths ]
    ELSE IF paths = << >> THEN [ frames |-> << >>, rest |-> << >> ]
    ELSE [ frames |-> permuationsDescend(maximumLength, << Frame(Head(paths)) >>),
           rest |-> Tail(paths) ]

\* lines 129-147: the sort of the winner and its optimizations; one target:
\* the result; several: the start of the permutations of the other paths
SortOptimized ==
    /\ pc = "optimize"
    /\ frames = << >>
    /\ LET initialOptimized == sortByPenalty(<< foundPaths[1] >> \o out)
       IN  /\ sortIn' = << foundPaths[1] >> \o out
           /\ picked' = initialOptimized[1]
           /\ IF Len(input) > 1
                THEN LET load == permuationsLoad(Len(initialOptimized[1]),
                                                 << >>, Tail(foundPaths))
                     IN  /\ firstOptimizedPath' = initialOptimized[1]
                         /\ frames' = load.frames
                         /\ rest' = load.rest
                         /\ pc' = "permute"
                         /\ result' = result
                ELSE /\ Finish(Return(selector(initialOptimized[1]), "search"))
                     /\ UNCHANGED << firstOptimizedPath, frames, rest >>
    /\ UNCHANGED << doc, input, config, elapsed, gen, foundPaths, count, out,
                    otherPermutations, optimized, tested, lateCheck, yielded,
                    timedOut, prev >>

\* lines 452-454: asked says that unique is called, u is what it answers
permuationTested(path, asked, u, load) ==
    /\ lateCheck' = IF asked THEN Late("permuations", elapsed) ELSE lateCheck
    /\ IF asked /\ u = "NoMatch"
         THEN /\ Finish(Throw("NoMatch"))
              /\ UNCHANGED << frames, rest, otherPermutations >>
         ELSE /\ otherPermutations' =
                   IF asked /\ u = "yes" THEN Append(otherPermutations, path)
                   ELSE otherPermutations
              /\ frames' = load.frames
              /\ rest' = load.rest
              /\ UNCHANGED << pc, result >>

\* lines 452-454 of the innermost call of permuations that has ended its loop
PermuteStep ==
    /\ pc = "permute"
    /\ frames # << >>
    /\ permuationTested(
          frames[Len(frames)].path,
          penalty(frames[Len(frames)].path) < penalty(firstOptimizedPath),
          unique(doc, frames[Len(frames)].path, input, rootDocument),
          permuationsLoad(Len(firstOptimizedPath),
                          SubSeq(frames, 1, Len(frames) - 1), rest))
    /\ UNCHANGED << doc, input, config, elapsed, gen, foundPaths, count, out,
                    optimized, firstOptimizedPath, tested, sortIn, picked,
                    yielded, timedOut, prev >>

\* lines 148-153: the next permutation enters optimized, and its optimize
\* call starts; the permutations that optimize has nothing to do for are
\* passed over
RECURSIVE optimizeLoad(_, _, _)
optimizeLoad(cfg, paths, acc) ==
    IF paths = << >> THEN [ frames |-> << >>, rest |-> << >>, optimized |-> acc ]
    ELSE LET fs == optimizeUnwind(cfg, << Frame(Head(paths)) >>)
         IN  IF fs # << >>
               THEN [ frames |-> fs, rest |-> Tail(paths),
                      optimized |-> Append(acc, Head(paths)) ]
               ELSE optimizeLoad(cfg, Tail(paths), Append(acc, Head(paths)))

\* line 148: all permutations are collected, the map over them starts
MapPermutations ==
    /\ pc = "permute"
    /\ frames = << >>
    /\ LET load == optimizeLoad(config, otherPermutations, << >>)
       IN  /\ frames' = load.frames
           /\ rest' = load.rest
           /\ optimized' = load.optimized
    /\ pc' = "optimizeRest"
    /\ UNCHANGED << doc, input, config, elapsed, gen, foundPaths, count, out,
                    otherPermutations, firstOptimizedPath, result, history,
                    prev >>

\* what follows a pass of optimize in the map of lines 149-153: the call
\* goes on, or the next permutation is taken
optimizeOn(step, acc) ==
    IF step.frames # << >>
      THEN [ frames |-> step.frames, rest |-> rest, optimized |-> acc ]
      ELSE optimizeLoad(config, rest, acc)

otherOptimized(t, u, load) ==
    /\ optimizePass(t, u)
    /\ IF t <= config.timeoutMs /\ u = "NoMatch"
         THEN UNCHANGED << frames, rest, optimized >>
         ELSE /\ frames' = load.frames
              /\ rest' = load.rest
              /\ optimized' = load.optimized

otherStep(t, u, step) ==
    otherOptimized(t, u, optimizeOn(step, optimized \o step.yield))

\* lines 149-153: optimize(foundPath) of a permutation, one pass of its loop
OptimizeOther ==
    /\ pc = "optimizeRest"
    /\ frames # << >>
    /\ \E t \in elapsed..MaxElapsed,
          u \in { unique(doc, optimizeNewPath(frames), input, rootDocument) } :
          otherStep(t, u, optimizeStep(config, frames, t, u))
    /\ UNCHANGED << doc, input, config, gen, foundPaths, count, out,
                    otherPermutations, firstOptimizedPath, tested, sortIn,
                    picked, prev >>

\* lines 155-160: the winner joins the list, the last sort, the result
SortFinal ==
    /\ pc = "optimizeRest"
    /\ frames = << >>
    /\ LET all == Append(optimized, firstOptimizedPath)
       IN  /\ optimized' = sortByPenalty(all)
           /\ sortIn' = all
           /\ picked' = optimized'[1]
           /\ Finish(Return(selector(optimized'[1]), "search"))
    /\ UNCHANGED << doc, input, config, elapsed, gen, foundPaths, count,
                    frames, rest, out, otherPermutations, firstOptimizedPath,
                    tested, lateCheck, yielded, timedOut, prev >>

Next ==
    \/ Start
    \/ SearchExhausted
    \/ SearchBudget
    \/ SearchCheck
    \/ SortFound
    \/ OptimizeFirst
    \/ SortOptimized
    \/ PermuteStep
    \/ MapPermutations
    \/ OptimizeOther
    \/ SortFinal

Spec == Init /\ [][Next]_vars

(***************************************************************************)
(* A second call with the same document, targets and options               *)
(***************************************************************************)
MaxCalls == 2

\* finder keeps nothing from one call to the next: the second call starts
\* from the state the first started from; prev remembers the first outcome
Restart ==
    /\ pc = "done"
    /\ prev.calls + 1 < MaxCalls
    /\ prev' = [ result |-> result, timedOut |-> timedOut,
                 calls |-> prev.calls + 1 ]
    /\ pc' = "start"
    /\ elapsed' = 0
    /\ gen' = GenInit(input)
    /\ foundPaths' = << >>
    /\ count' = 0
    /\ frames' = << >>
    /\ rest' = << >>
    /\ out' = << >>
    /\ otherPermutations' = << >>
    /\ optimized' = << >>
    /\ firstOptimizedPath' = << >>
    /\ result' = NoResult
    /\ tested' = << >>
    /\ lateCheck' = "none"
    /\ sortIn' = << >>
    /\ picked' = << >>
    /\ yielded' = NoYield
    /\ timedOut' = FALSE
    /\ UNCHANGED << doc, input, config >>

InitRepeat ==
    /\ Init
    /\ config.seedMinLength = 3
    /\ config.optimizedMinLength = 2

NextRepeat == Next \/ Restart

SpecRepeat == InitRepeat /\ [][NextRepeat]_vars


(***************************************************************************)
(* The properties of finder                                                *)
(***************************************************************************)
\* what the returned selector selects in the root scope
Selects(css) == querySelectorAll(doc, rootDocument, css)

\* the selector selects the targets, all of them and nothing else
Exact(css) ==
    /\ Selects(css) = InputSet(input)
    /\ Cardinality(Selects(css)) = Len(input)

TargetsInScope == \A k \in DOMAIN input : InScope(doc, rootDocument, input[k])

AllHtml == \A k \in DOMAIN input : LowerTag(doc, input[k]) = sHtml

\* the compounds of a rendered selector are at its odd positions
CompoundsOf(css) == { css[k] : k \in { j \in DOMAIN css : j % 2 = 1 } }

\* C1: every selector that finder returns, on any return path, selects in
\* the root scope exactly the targets: as many matches as targets, and every
\* target among them.
ReturnedSelectsTargets == result.kind = "return" => Exact(result.css)

\* C2: for one target and the default root, finder never throws and ends
\* with a selector of exactly the target; the selector is the fallback's
\* only when the budget was spent before a candidate was found unique.
SingleTargetReturns ==
    (Len(input) = 1 /\ config.root = documentBody(doc)) =>
        /\ result.kind # "throw"
        /\ pc = "done" =>
              /\ result.kind = "return"
              /\ Exact(result.css)
              /\ result.via = "fallback" =>
                    /\ timedOut \/ count >= config.maxNumberOfPathChecks
                    /\ foundPaths = << >>
              /\ result.via = "search" => foundPaths # << >>

SingleTargetFallback ==
    /\ pc = "done"
    /\ Len(input) = 1
    /\ config.root = documentBody(doc)
    /\ result.kind = "return"
    /\ result.via = "fallback"

\* the target has no fragment of penalty 0, so no selector of it costs 0
NoZeroCost ==
    ~(GetId(doc, input[1]) # NoName /\ ConfigIdName(config, GetId(doc, input[1])))

TimeoutZero ==
    /\ pc = "done"
    /\ config.timeoutMs = 0
    /\ NoZeroCost
    /\ TargetsInScope
    /\ ~AllHtml

FallbackOrTimeout ==
    \/ result.kind = "return" /\ result.via = "fallback" /\ Exact(result.css)
    \/ result = Throw("Timeout")

\* C3 as stated: with timeoutMs 0 and no selector of cost 0 for the target,
\* the call ends with the fallback selector or with the timeout error, and
\* never with a selector of the search.
TimeoutZeroTwoOutcomes == TimeoutZero => FallbackOrTimeout

\* C3: with timeoutMs 0 and no selector of cost 0 for the target, a call
\* whose first reading of the clock in the search loop is above 0 ends with
\* the fallback selector or with the timeout error; a selector of the search
\* is returned only after candidates were tested while the clock still read
\* 0, and whatever is returned selects exactly the targets.
TimeoutZeroOnceClockMoved ==
    TimeoutZero =>
        /\ (timedOut /\ count = 0) => FallbackOrTimeout
        /\ result.kind = "return" => Exact(result.css)
        /\ result.via = "search" => count > 0

TimeoutZeroFails ==
    /\ TimeoutZero
    /\ timedOut
    /\ count = 0
    /\ result = Throw("Timeout")

\* the class predicate in force, read from the options
Accepted(name) ==
    \/ config.className = "all"
    \/ config.className = "default" /\ wordLike(name)

ClassesOf(css) ==
    { Unescape(c.text) : c \in { x \in CompoundsOf(css) : x.kind = "class" } }

\* C4: a class is in a returned selector only if the class predicate in
\* force accepted it; css-175oi2r is in none under the default predicate.
OnlyAcceptedClasses ==
    result.kind = "return" =>
        \A name \in ClassesOf(result.css) :
            /\ Accepted(name)
            /\ config.className = "default" => name # sCssA

ClassReturnedBesideRejected ==
    /\ result.kind = "return"
    /\ config.className = "default"
    /\ ClassesOf(result.css) # {}
    /\ \E k \in DOMAIN Documents[doc][input[1]].classList :
          ~Accepted(Documents[doc][input[1]].classList[k])

\* C5 as stated: the second call with the same document, targets and
\* options ends as the first did, whatever the clock read in each.
SameOutcomeWhateverTheClock ==
    (prev.calls > 0 /\ pc = "done") => result = prev.result

\* C5: the second call with the same document, targets and options ends as
\* the first did when neither call read the clock above timeoutMs.
SameOutcomeWithinTimeout ==
    (prev.calls > 0 /\ pc = "done" /\ ~timedOut /\ ~prev.timedOut) =>
        result = prev.result

SecondCallWithinTimeout ==
    /\ prev.calls > 0
    /\ pc = "done"
    /\ ~timedOut
    /\ ~prev.timedOut
    /\ elapsed > 0
    /\ result.kind = "return"
    /\ result.via = "search"

\* C6: once the elapsed time is above timeoutMs, neither the search loop nor
\* optimize nor permuations asks unique again.
NoCheckAfterTimeout == lateCheck = "none"

\* C7 as stated: the path a sort selects has no path of the same score and
\* fewer fragments in the list that was sorted.
TiesBrokenByLength ==
    picked # << >> =>
        ~\E k \in DOMAIN sortIn :
            /\ penalty(sortIn[k]) = penalty(picked)
            /\ Len(sortIn[k]) < Len(picked)

\* C7: the path a sort selects is, of the paths of the least score in the
\* list that was sorted, the one that came first in that list, whatever its
\* length.
TiesKeepListOrder ==
    picked # << >> =>
        \E k \in DOMAIN sortIn :
            /\ sortIn[k] = picked
            /\ \A j \in DOMAIN sortIn :
                  /\ penalty(sortIn[j]) >= penalty(picked)
                  /\ j < k => penalty(sortIn[j]) > penalty(picked)

LongerPathSelected ==
    /\ picked # << >>
    /\ \E k \in DOMAIN sortIn :
          /\ penalty(sortIn[k]) = penalty(picked)
          /\ Len(sortIn[k]) < Len(picked)

\* C8: the candidates of search reach unique batch after batch, the first
\* batch when the depth reaches seedMinLength or the ancestors end, and
\* within a batch in non-decreasing order of score.
BatchesInScoreOrder ==
    /\ tested # << >> =>
          tested[1].batch >= config.seedMinLength \/ gen.at = "yieldFinal"
    /\ Len(tested) = 2 =>
          /\ tested[2].batch <= tested[1].batch
          /\ tested[2].batch = tested[1].batch =>
                tested[2].score <= tested[1].score

LaterBatchLowerScore ==
    /\ Len(tested) = 2
    /\ tested[2].batch < tested[1].batch
    /\ tested[2].score > tested[1].score

\* path is from with one fragment removed, neither the first nor the last
InteriorRemoved(from, path) ==
    \E i \in 2..(Len(from) - 1) : path = Splice(from, i)

\* the fragments of path are fragments of seed, in the order of seed
KeptInOrder(seed, path) ==
    \E f \in [ DOMAIN path -> DOMAIN seed ] :
        /\ \A k \in DOMAIN path : seed[f[k]] = path[k]
        /\ \A k \in 1..(Len(path) - 1) : f[k] < f[k + 1]
        /\ f[1] = 1
        /\ f[Len(path)] = Len(seed)

\* the combinator that the levels of two consecutive fragments ask for
CombinatorFor(inner, outer) ==
    IF outer.level - inner.level = 1 THEN Child ELSE Descendant

RenderedByLevels(path) ==
    LET css == selector(path)
        n == Len(path)
    IN  /\ Len(css) = 2 * n - 1
        /\ \A k \in 1..n : css[2 * (n - k) + 1] = path[k].name
        /\ \A k \in 1..(n - 1) :
              css[2 * (n - k)] = CombinatorFor(path[k], path[k + 1])

\* C9: a path that optimize yields is the path it was given without interior
\* fragments (the first and the last are kept), was found unique, has at
\* least max(2, optimizedMinLength) fragments, and is rendered with the
\* descendant combinator where fragments were dropped and the child
\* combinator where the levels are adjacent.
OptimizedPathsSound ==
    yielded # NoYield =>
        /\ InteriorRemoved(yielded.from, yielded.path)
        /\ KeptInOrder(yielded.seed, yielded.path)
        /\ unique(doc, yielded.path, input, rootDocument) = "yes"
        /\ Len(yielded.path) >= 2
        /\ Len(yielded.path) >= config.optimizedMinLength
        /\ RenderedByLevels(yielded.path)

TwoFragmentsDropped ==
    /\ yielded # NoYield
    /\ Len(yielded.seed) - Len(yielded.path) >= 2
    /\ \E k \in DOMAIN selector(yielded.path) :
          k % 2 = 0 /\ selector(yielded.path)[k] = Descendant

\* the ancestor of e that is level steps above it (e itself for 0)
RECURSIVE AncestorAt(_, _, _)
AncestorAt(d, e, level) ==
    IF e = Null \/ level = 0 THEN e
    ELSE AncestorAt(d, parentElement(d, e), level - 1)

\* each fragment describes the ancestor of the first target at its level,
\* the first has level 0, the levels increase, the selector matches the
\* first target in the root scope
Described(path) ==
    /\ path[1].level = 0
    /\ \A k \in 1..(Len(path) - 1) : path[k].level < path[k + 1].level
    /\ \A k \in DOMAIN path :
          /\ AncestorAt(doc, input[1], path[k].level) # Null
          /\ MatchesCompound(doc, AncestorAt(doc, input[1], path[k].level),
                             path[k].name)
    /\ RenderedByLevels(path)
    /\ input[1] \in Selects(selector(path))

CandidateDescribed(next) == ~next.done => Described(next.value)

FallbackDescribed(f) == f.path # << >> => Described(f.path)

\* C10: with every target inside the root scope, unique never finds zero
\* matches: every path that search, optimize, permuations or fallback gives
\* it describes the ancestors of the first target and matches that target.
NoMatchNeverRaised ==
    TargetsInScope =>
        /\ result # Throw("NoMatch")
        /\ pc = "search" =>
              /\ CandidateDescribed(searchNext(doc, config, rootDocument, gen))
              /\ FallbackDescribed(fallback(doc, input, rootDocument))
        /\ \A k \in DOMAIN frames : Described(frames[k].path)
        /\ (pc \in {"optimize", "optimizeRest"} /\ frames # << >>) =>
              Described(optimizeNewPath(frames))

PermutationsInElementRoot ==
    /\ TargetsInScope
    /\ rootDocument # DocumentNode
    /\ pc = "permute"
    /\ frames # << >>
    /\ Len(frames[Len(frames)].path) < Len(frames[1].path)

=============================================================================
